---- MODULE Spec2Model ----
(***************************************************************************)
(* The trade simulator of RSI-bot: backtest() of backtest.py, walked one   *)
(* bar at a time, with its recursive force-signal fallback, and the entry  *)
(* and exit rules of strategy.check_signal it is compared against.         *)
(*                                                                         *)
(* A data frame is a sequence of rows plus the set of its column names.    *)
(* A row carries one value per quantity (Date, Close, rsi, ema, adx, sma,  *)
(* macd, signal); the column names say under which header each quantity    *)
(* is stored ("Close" or "close", "SMA_200" or "sma", ...).  Prices are    *)
(* integers, stop_loss / take_profit are in percent, and return_pct is     *)
(* kept as the fraction num/den that the code evaluates in floating point. *)
(***************************************************************************)
EXTENDS Integers, Sequences, FiniteSets, TLC

\* Longest input series.
MaxBars == 4

\* None, for a date or a price (start_date=None, entry_price = None).
NoValue == 0

\* Longest series handed to check_signal.
MaxRows == 3

\* An undefined indicator value (NaN): the warm-up rows of an indicator.
NaN == -1

\* Floating-point comparisons: every comparison with NaN is false.
Lt(a, b) == a # NaN /\ b # NaN /\ a < b
Gt(a, b) == a # NaN /\ b # NaN /\ a > b
Le(a, b) == a # NaN /\ b # NaN /\ a <= b
Ge(a, b) == a # NaN /\ b # NaN /\ a >= b

--------------------------------------------------------------------------
\* Input domains.

RsiValues == {20, 50, 80}
CloseValues == {98, 103}
AdxValues == {20, 30}
MacdValues == {0, 1}

\* Column sets of the frames handed to backtest.
LegacyColumns == {"Date", "Close", "rsi", "ema", "adx", "SMA_200", "MACD", "Signal"}
LowerColumns == {"date", "close", "RSI", "ema", "adx", "SMA_200", "MACD", "Signal"}
IndicatorColumns ==
    {"date", "open", "high", "low", "close", "volume",
     "rsi", "ema", "sma", "adx", "macd", "macd_signal"}

Schemas ==
    {LegacyColumns, LowerColumns, IndicatorColumns,
     LegacyColumns \ {"rsi"}, LegacyColumns \ {"Close"}, LegacyColumns \ {"Date"},
     LegacyColumns \ {"adx", "SMA_200", "MACD", "Signal"}}

Row(date, close, rsi, adx, macd) ==
    [Date |-> date, Close |-> close, rsi |-> rsi, ema |-> 100, adx |-> adx,
     sma |-> 100, macd |-> macd, signal |-> 0]

\* The date of the k-th row of an n-row input: ascending or descending rows.
DateAt(order, n, k) == IF order = "asc" THEN k ELSE n + 1 - k

BaseConfig ==
    [rsi_buy |-> 30, rsi_sell |-> 70, stop_loss |-> 2, take_profit |-> 3,
     adx_thresh |-> 0, use_sma |-> FALSE, use_macd |-> FALSE,
     start_date |-> NoValue, end_date |-> NoValue]

\* The optional-filter cases of a well-formed frame: the ADX threshold with the
\* (constant) adx series, and the MACD switch with the (constant) macd series.
FilterCases ==
    { [adx_thresh |-> 0, adx |-> 20, use_macd |-> FALSE, macd |-> 0],
      [adx_thresh |-> 20, adx |-> 30, use_macd |-> FALSE, macd |-> 0],
      [adx_thresh |-> 20, adx |-> 20, use_macd |-> FALSE, macd |-> 1],
      [adx_thresh |-> 0, adx |-> 30, use_macd |-> TRUE, macd |-> 1],
      [adx_thresh |-> 0, adx |-> 20, use_macd |-> TRUE, macd |-> 0] }

\* What varies between inputs besides the rsi and close series: the strategy
\* filters on a well-formed frame, or the date range and row order, or the
\* column names.
StrategyScenarios ==
    { [order |-> "asc", columns |-> LegacyColumns, closes |-> CloseValues,
       adx |-> f.adx, macd |-> f.macd,
       cfg |-> [BaseConfig EXCEPT !.adx_thresh = f.adx_thresh, !.use_sma = s,
                                  !.use_macd = f.use_macd]] :
        f \in FilterCases, s \in BOOLEAN }

RangeScenarios ==
    { [order |-> o, columns |-> LegacyColumns, closes |-> {103}, adx |-> 30, macd |-> 1,
       cfg |-> [BaseConfig EXCEPT !.start_date = sd, !.end_date = ed]] :
        o \in {"asc", "desc"}, sd \in {NoValue, 2}, ed \in {NoValue, 1, 3} }

SchemaScenarios ==
    { [order |-> "asc", columns |-> c, closes |-> {98}, adx |-> 30, macd |-> 0,
       cfg |-> [BaseConfig EXCEPT !.adx_thresh = 20, !.use_sma = TRUE, !.use_macd = TRUE]] :
        c \in Schemas }

Scenarios == StrategyScenarios \cup RangeScenarios \cup SchemaScenarios

--------------------------------------------------------------------------
VARIABLES
    input,         \* the frame the caller hands to backtest, rows in the caller's order
    df,            \* the frame: the argument at pc = "call", then sorted and filtered
    columns,       \* its column names
    cfg,           \* rsi_buy, rsi_sell, stop_loss, take_profit, adx_thresh, use_sma,
                   \* use_macd, start_date, end_date
    force_signal,  \* the running call's force_signal argument
    pc,            \* "call", "loop", "ret" (returned its own ledger),
                   \* "tail" (returned the fallback's result), "raised"
    frames,        \* the suspended callers, innermost last
    calls,         \* invocations of backtest so far
    debug_counts,
    i,             \* bars processed by the loop
    position, entry_price, entry_date, trades,
    result,        \* the returned (trades_df, debug_counts)
    error          \* the KeyError's column, or "none"

vars == <<input, df, columns, cfg, force_signal, pc, frames, calls, debug_counts, i,
          position, entry_price, entry_date, trades, result, error>>

locals == <<debug_counts, i, position, entry_price, entry_date, trades>>

NoResult == [trades_df |-> <<>>, debug_counts |-> <<>>, set |-> FALSE]

Init ==
    \E n \in 0..MaxBars :
    \E sc \in Scenarios :
    \E vals \in [1..n -> RsiValues \X sc.closes] :
        /\ input = [k \in 1..n |->
                    Row(DateAt(sc.order, n, k), vals[k][2], vals[k][1], sc.adx, sc.macd)]
        /\ df = input
        /\ columns = sc.columns
        /\ cfg = sc.cfg
        /\ force_signal = FALSE
        /\ pc = "call"
        /\ frames = <<>>
        /\ calls = 1
        /\ debug_counts = <<>>
        /\ i = 0
        /\ position = "None"
        /\ entry_price = NoValue
        /\ entry_date = NoValue
        /\ trades = <<>>
        /\ result = NoResult
        /\ error = "none"

--------------------------------------------------------------------------
\* backtest, lines 19-55: schema normalisation, sorting, date filtering.

\* "Safe column name handling": the three renames, in order.
Rename(cols) ==
    LET c1 == IF "Date" \notin cols /\ "date" \in cols
              THEN (cols \ {"date"}) \cup {"Date"} ELSE cols
        c2 == IF "Close" \notin c1 /\ "close" \in c1
              THEN (c1 \ {"close"}) \cup {"Close"} ELSE c1
    IN  IF "rsi" \notin c2 /\ "RSI" \in c2
        THEN (c2 \ {"RSI"}) \cup {"rsi"} ELSE c2

\* Variant: the rsi column is not among the required ones.
MissingColumnNoRsi(cols) ==
    IF "Date" \notin cols THEN "Date"
    ELSE IF "Close" \notin cols THEN "Close"
    ELSE "none"

\* The first required column that is absent, or "none".
MissingColumn(cols) ==
    IF "Date" \notin cols THEN "Date"
    ELSE IF "Close" \notin cols THEN "Close"
    ELSE IF "rsi" \notin cols THEN "rsi"
    ELSE "none"

RECURSIVE InsertByDate(_, _)
InsertByDate(row, d) ==
    IF d = <<>> THEN <<row>>
    ELSE IF row.Date < Head(d).Date THEN <<row>> \o d
    ELSE <<Head(d)>> \o InsertByDate(row, Tail(d))

RECURSIVE SortAscending(_)
SortAscending(d) ==
    IF d = <<>> THEN <<>> ELSE InsertByDate(Head(d), SortAscending(Tail(d)))

\* Variant: the frame is walked in the caller's row order.
SortValuesSkipped(d) == d

\* df.sort_values("Date")
SortValues(d) == SortAscending(d)

FromStart(d, start) == LET Keep(r) == r.Date >= start IN SelectSeq(d, Keep)
\* Variant: the end date itself is cut off.
UpToEndExclusive(d, end) == LET Keep(r) == r.Date < end IN SelectSeq(d, Keep)

UpToEnd(d, end) == LET Keep(r) == r.Date <= end IN SelectSeq(d, Keep)

\* "if start_date:" / "if end_date:": None is falsy and leaves the frame alone.
DateFilter(d, c) ==
    LET d1 == IF c.start_date # NoValue THEN FromStart(d, c.start_date) ELSE d
    IN  IF c.end_date # NoValue THEN UpToEnd(d1, c.end_date) ELSE d1

\* The frame the loop walks.
Prepared(d, c) == DateFilter(SortValues(d), c)

\* Variant: the empty-frame return is never taken.
FrameEmptyNever(d) == FALSE

\* df.empty
FrameEmpty(d) == d = <<>>

--------------------------------------------------------------------------
\* backtest, lines 57-85: the per-bar conditions and the debug counters.

RsiCondBuy(row, c) == Lt(row.rsi, c.rsi_buy)
RsiCondSell(row, c) == Gt(row.rsi, c.rsi_sell)

AdxCond(row, cols, c) ==
    IF c.adx_thresh > 0 /\ "adx" \in cols THEN Gt(row.adx, c.adx_thresh) ELSE TRUE

SmaCond(row, cols, c) ==
    IF c.use_sma /\ "SMA_200" \in cols THEN Gt(row.Close, row.sma) ELSE TRUE

MacdCond(row, cols, c) ==
    IF c.use_macd /\ "MACD" \in cols /\ "Signal" \in cols
    THEN Gt(row.macd, row.signal) ELSE TRUE

CounterNames ==
    {"RSI Buy Matches", "RSI Sell Matches", "ADX Matches", "SMA Matches", "MACD Matches"}

\* int(cond.sum()) of each condition over the frame.
DebugCounts(d, cols, c) ==
    LET rows == 1..Len(d)
    IN  [name \in CounterNames |->
            CASE name = "RSI Buy Matches" ->
                    Cardinality({k \in rows : RsiCondBuy(d[k], c)})
              [] name = "RSI Sell Matches" ->
                    Cardinality({k \in rows : RsiCondSell(d[k], c)})
              [] name = "ADX Matches" ->
                    Cardinality({k \in rows : AdxCond(d[k], cols, c)})
              [] name = "SMA Matches" ->
                    Cardinality({k \in rows : SmaCond(d[k], cols, c)})
              [] name = "MACD Matches" ->
                    Cardinality({k \in rows : MacdCond(d[k], cols, c)})]

--------------------------------------------------------------------------
\* backtest, lines 87-130: the loop over the bars.

EntryTaken(row, cols, c, force) ==
    (RsiCondBuy(row, c) /\ AdxCond(row, cols, c) /\ SmaCond(row, cols, c)
        /\ MacdCond(row, cols, c))
    \/ force

\* Variant: force_signal opens positions but does not close them.
ExitTakenUnforced(row, cols, c, force) ==
    RsiCondSell(row, c) /\ AdxCond(row, cols, c) /\ SmaCond(row, cols, c)
        /\ MacdCond(row, cols, c)

ExitTaken(row, cols, c, force) ==
    (RsiCondSell(row, c) /\ AdxCond(row, cols, c) /\ SmaCond(row, cols, c)
        /\ MacdCond(row, cols, c))
    \/ force

\* (exit_price - entry_price) / entry_price * 100, as the fraction num/den.
PctReturn(exit_price, price) == [num |-> (exit_price - price) * 100, den |-> price]

Trade(st, row) ==
    [entry_date |-> st.entry_date, exit_date |-> row.Date,
     entry_price |-> st.entry_price, exit_price |-> row.Close,
     return_pct |-> PctReturn(row.Close, st.entry_price)]

Opened(st, row) ==
    [st EXCEPT !.position = "LONG", !.entry_price = row.Close, !.entry_date = row.Date]

Closed(st, row) ==
    [st EXCEPT !.position = "None", !.trades = Append(st.trades, Trade(st, row))]

\* Variant: a bar that closes a position may open the next one at once.
LoopBodyReopens(st, row, cols, c, force) ==
    IF st.position = "None"
    THEN IF EntryTaken(row, cols, c, force) THEN Opened(st, row) ELSE st
    ELSE IF ExitTaken(row, cols, c, force)
         THEN IF EntryTaken(row, cols, c, force)
              THEN Opened(Closed(st, row), row) ELSE Closed(st, row)
         ELSE st

\* One iteration of "for i in range(len(df))" on the state of the walk.
LoopBody(st, row, cols, c, force) ==
    IF st.position = "None"
    THEN IF EntryTaken(row, cols, c, force) THEN Opened(st, row) ELSE st
    ELSE IF ExitTaken(row, cols, c, force) THEN Closed(st, row) ELSE st

\* Variant: a position still open after the last bar is closed at that bar.
LedgerOfAutoClosed(st, d) ==
    IF st.position = "LONG" /\ d # <<>>
    THEN Closed(st, d[Len(d)]).trades ELSE st.trades

\* trades_df = pd.DataFrame(trades, columns=[...])
LedgerOf(st, d) == st.trades

\* Variant: every unforced run is followed by the forced one.
NeedsFallbackAlways(ledger, force) == ~force

\* "if trades_df.empty and not force_signal"
NeedsFallback(ledger, force) == ledger = <<>> /\ ~force

\* Variant: the fallback call passes its own force_signal on.
FallbackForceKept(force) == force

\* The force_signal argument of the fallback call.
FallbackForce(force) == TRUE

--------------------------------------------------------------------------
\* backtest as a function of its arguments: what one call returns on a frame
\* that has the required columns.

FlatStart == [position |-> "None", entry_price |-> NoValue, entry_date |-> NoValue,
              trades |-> <<>>]

\* The loop from bar k on.
RECURSIVE WalkFrom(_, _, _, _, _, _)
WalkFrom(st, d, k, cols, c, force) ==
    IF k > Len(d) THEN st
    ELSE WalkFrom(LoopBody(st, d[k], cols, c, force), d, k + 1, cols, c, force)

RECURSIVE Backtest(_, _, _, _)
Backtest(d, cols, c, force) ==
    LET p == Prepared(d, c)
        ledger == LedgerOf(WalkFrom(FlatStart, p, 1, cols, c, force), p)
    IN  IF FrameEmpty(p)
        THEN [trades_df |-> <<>>, debug_counts |-> <<>>, set |-> TRUE]
        ELSE IF NeedsFallback(ledger, force)
        THEN Backtest(p, cols, c, FallbackForce(force))
        ELSE [trades_df |-> ledger, debug_counts |-> DebugCounts(p, cols, c),
              set |-> TRUE]

--------------------------------------------------------------------------
\* The steps of a call.

Walk == [position |-> position, entry_price |-> entry_price,
         entry_date |-> entry_date, trades |-> trades]

ResetLocals ==
    /\ debug_counts' = <<>>
    /\ i' = 0
    /\ position' = "None"
    /\ entry_price' = NoValue
    /\ entry_date' = NoValue
    /\ trades' = <<>>

\* raise KeyError(f"Missing required column: {col}")
EnterRaise ==
    /\ pc = "call"
    /\ MissingColumn(Rename(columns)) # "none"
    /\ error' = MissingColumn(Rename(columns))
    /\ columns' = Rename(columns)
    /\ pc' = "raised"
    /\ UNCHANGED <<input, df, cfg, force_signal, frames, calls, locals, result>>

\* The filtered frame is empty: return (empty frame, {}).
EnterEmpty ==
    /\ pc = "call"
    /\ MissingColumn(Rename(columns)) = "none"
    /\ FrameEmpty(Prepared(df, cfg))
    /\ df' = Prepared(df, cfg)
    /\ columns' = Rename(columns)
    /\ result' = [trades_df |-> <<>>, debug_counts |-> <<>>, set |-> TRUE]
    /\ pc' = "ret"
    /\ UNCHANGED <<input, cfg, force_signal, frames, calls, locals, error>>

\* The counters are computed and the walk starts Flat.
EnterLoop ==
    /\ pc = "call"
    /\ MissingColumn(Rename(columns)) = "none"
    /\ ~FrameEmpty(Prepared(df, cfg))
    /\ df' = Prepared(df, cfg)
    /\ columns' = Rename(columns)
    /\ debug_counts' = DebugCounts(Prepared(df, cfg), Rename(columns), cfg)
    /\ i' = 0
    /\ position' = "None"
    /\ entry_price' = NoValue
    /\ entry_date' = NoValue
    /\ trades' = <<>>
    /\ pc' = "loop"
    /\ UNCHANGED <<input, cfg, force_signal, frames, calls, result, error>>

\* One bar of the loop.
Bar ==
    /\ pc = "loop"
    /\ i < Len(df)
    /\ LET st == LoopBody(Walk, df[i + 1], columns, cfg, force_signal)
       IN  /\ position' = st.position
           /\ entry_price' = st.entry_price
           /\ entry_date' = st.entry_date
           /\ trades' = st.trades
    /\ i' = i + 1
    /\ UNCHANGED <<input, df, columns, cfg, force_signal, pc, frames, calls, debug_counts,
                   result, error>>

\* No trades and not forced: return backtest(df.copy(), ..., force_signal=True).
FinishFallback ==
    /\ pc = "loop"
    /\ i = Len(df)
    /\ NeedsFallback(LedgerOf(Walk, df), force_signal)
    /\ frames' = Append(frames,
            [df |-> df, columns |-> columns, force_signal |-> force_signal,
             debug_counts |-> debug_counts, i |-> i, position |-> position,
             entry_price |-> entry_price, entry_date |-> entry_date,
             trades |-> trades])
    /\ force_signal' = FallbackForce(force_signal)
    /\ calls' = calls + 1
    /\ pc' = "call"
    /\ ResetLocals
    /\ UNCHANGED <<input, df, columns, cfg, result, error>>

\* return trades_df, debug_counts
FinishReturn ==
    /\ pc = "loop"
    /\ i = Len(df)
    /\ ~NeedsFallback(LedgerOf(Walk, df), force_signal)
    /\ result' = [trades_df |-> LedgerOf(Walk, df), debug_counts |-> debug_counts,
                  set |-> TRUE]
    /\ pc' = "ret"
    /\ UNCHANGED <<input, df, columns, cfg, force_signal, frames, calls, locals, error>>

\* The fallback call is over: the caller returns its result (or its error) as is.
Return ==
    /\ pc \in {"ret", "tail", "raised"}
    /\ frames # <<>>
    /\ LET f == frames[Len(frames)]
       IN  /\ df' = f.df
           /\ columns' = f.columns
           /\ force_signal' = f.force_signal
           /\ debug_counts' = f.debug_counts
           /\ i' = f.i
           /\ position' = f.position
           /\ entry_price' = f.entry_price
           /\ entry_date' = f.entry_date
           /\ trades' = f.trades
    /\ frames' = SubSeq(frames, 1, Len(frames) - 1)
    /\ pc' = IF pc = "raised" THEN "raised" ELSE "tail"
    /\ UNCHANGED <<input, cfg, calls, result, error>>

Next ==
    \/ EnterRaise
    \/ EnterEmpty
    \/ EnterLoop
    \/ Bar
    \/ FinishFallback
    \/ FinishReturn
    \/ Return

Spec == Init /\ [][Next]_vars

\* The outermost call is over.
Done == pc \in {"ret", "tail", "raised"} /\ frames = <<>>

--------------------------------------------------------------------------
\* strategy.check_signal, lines 22-46, on the rows of a frame.

RsiEntry(row, prev, rsi_buy) ==
    Lt(row.rsi, rsi_buy) /\ Gt(row.Close, row.ema) /\ Le(prev.Close, prev.ema)

\* Variant: the exit looks at rsi alone.
ExitSignalNoEma(row, rsi_sell) == Gt(row.rsi, rsi_sell)

ExitSignal(row, rsi_sell) == Gt(row.rsi, rsi_sell) /\ Lt(row.Close, row.ema)

SmaFilter(row, use_sma) == IF use_sma THEN Gt(row.Close, row.sma) ELSE TRUE
\* Variant: adx must exceed the threshold.
AdxFilterStrict(row, adx_thresh) == Gt(row.adx, adx_thresh)

AdxFilter(row, adx_thresh) == Ge(row.adx, adx_thresh)
MacdFilter(row, use_macd) == IF use_macd THEN Gt(row.macd, row.signal) ELSE TRUE

\* Variant: the predecessor is taken from the head of the frame.
CheckSignalFirstRow(d, rsi_buy, rsi_sell, adx_thresh, use_sma, use_macd) ==
    IF Len(d) < 2 THEN "HOLD"
    ELSE LET row == d[Len(d)]
             prev == d[1]
         IN  IF RsiEntry(row, prev, rsi_buy) /\ SmaFilter(row, use_sma)
                  /\ AdxFilter(row, adx_thresh) /\ MacdFilter(row, use_macd)
             THEN "BUY"
             ELSE IF ExitSignal(row, rsi_sell) THEN "SELL"
             ELSE "HOLD"

CheckSignal(d, rsi_buy, rsi_sell, adx_thresh, use_sma, use_macd) ==
    IF Len(d) < 2 THEN "HOLD"
    ELSE LET row == d[Len(d)]
             prev == d[Len(d) - 1]
         IN  IF RsiEntry(row, prev, rsi_buy) /\ SmaFilter(row, use_sma)
                  /\ AdxFilter(row, adx_thresh) /\ MacdFilter(row, use_macd)
             THEN "BUY"
             ELSE IF ExitSignal(row, rsi_sell) THEN "SELL"
             ELSE "HOLD"

--------------------------------------------------------------------------
\* check_signal on its own: one call on an indicator-enriched frame.

\* The last row: every indicator may be undefined.
LastRows ==
    { [Date |-> 0, Close |-> c, rsi |-> r, ema |-> e, adx |-> a, sma |-> m,
       macd |-> md[1], signal |-> md[2]] :
        c \in CloseValues, r \in RsiValues \cup {NaN}, e \in {100, NaN},
        a \in {10, 20, NaN}, m \in {100, NaN},
        md \in {<<1, 0>>, <<0, 0>>, <<NaN, 0>>, <<1, NaN>>} }

\* The rows before it: close and ema vary.
EarlierRows ==
    { [Date |-> 0, Close |-> c, rsi |-> 50, ema |-> e, adx |-> 20, sma |-> 100,
       macd |-> 0, signal |-> 0] :
        c \in CloseValues, e \in {100, NaN} }

SignalConfigs ==
    { [BaseConfig EXCEPT !.adx_thresh = t, !.use_sma = s, !.use_macd = u] :
        t \in {0, 20}, s \in BOOLEAN, u \in BOOLEAN }

\* The frame: rows dated 1..n, the last one from LastRows; n = 0 is the empty
\* frame.
InitSignal ==
    /\ \E n \in 0..MaxRows :
       \E earlier \in [1..(n - 1) -> EarlierRows] :
       \E last \in LastRows :
            df = [k \in 1..n |->
                    [(IF k = n THEN last ELSE earlier[k]) EXCEPT !.Date = k]]
    /\ input = df
    /\ columns = IndicatorColumns
    /\ cfg \in SignalConfigs
    /\ force_signal = FALSE
    /\ pc = "call"
    /\ frames = <<>>
    /\ calls = 1
    /\ debug_counts = <<>>
    /\ i = 0
    /\ position = "None"
    /\ entry_price = NoValue
    /\ entry_date = NoValue
    /\ trades = <<>>
    /\ result = NoResult
    /\ error = "none"

\* df.iloc[-2:], or the whole frame when it is shorter.
LastTwo(d) == IF Len(d) <= 2 THEN d ELSE SubSeq(d, Len(d) - 1, Len(d))

\* check_signal(df, rsi_buy, rsi_sell, adx_thresh, use_sma, use_macd), and the
\* same call on the last two rows alone.
Evaluate ==
    /\ pc = "call"
    /\ result' =
          [signal |-> CheckSignal(df, cfg.rsi_buy, cfg.rsi_sell, cfg.adx_thresh,
                                  cfg.use_sma, cfg.use_macd),
           pair_signal |-> CheckSignal(LastTwo(df), cfg.rsi_buy, cfg.rsi_sell,
                                       cfg.adx_thresh, cfg.use_sma, cfg.use_macd),
           set |-> TRUE]
    /\ pc' = "ret"
    /\ UNCHANGED <<input, df, columns, cfg, force_signal, frames, calls, locals, error>>

SignalSpec == InitSignal /\ [][Evaluate]_vars

--------------------------------------------------------------------------
\* Properties of the simulator.

\* The loop is about to process bar i + 1.
AtBar == pc = "loop" /\ i < Len(df)
Current == df[i + 1]

Disjoint(l) ==
    \A a, b \in 1..Len(l) :
        a # b => (l[a].exit_date < l[b].entry_date \/ l[b].exit_date < l[a].entry_date)

\* C1: at every point of a run the position is Flat or one Long whose entry
\* price and date are those of one processed bar, opened after every recorded
\* trade was closed; no two trades of the ledger (the one being built and the
\* one returned) have overlapping [entry_date, exit_date] intervals.
C1_SinglePosition ==
    /\ position \in {"None", "LONG"}
    /\ position = "LONG" =>
          /\ \E k \in 1..i : df[k].Date = entry_date /\ df[k].Close = entry_price
          /\ \A k \in 1..Len(trades) : trades[k].exit_date < entry_date
    /\ Disjoint(trades)
    /\ Disjoint(result.trades_df)

C1_Witness == pc = "loop" /\ ~force_signal /\ position = "LONG" /\ Len(trades) >= 1

\* pnl = (close - entry_price) / entry_price against the fractions
\* take_profit / 100 and stop_loss / 100.
PnlHit(close, price, c) ==
    \/ (close - price) * 100 >= c.take_profit * price
    \/ (close - price) * 100 <= -(c.stop_loss * price)

\* C2: whenever the simulator is Long at a bar whose pnl reaches take_profit or
\* -stop_loss, the position is closed at that bar with a trade at its close.
C2_StopTargetExit ==
    [][(AtBar /\ position = "LONG" /\ PnlHit(Current.Close, entry_price, cfg))
          => /\ position' = "None"
             /\ Len(trades') = Len(trades) + 1
             /\ trades'[Len(trades')].exit_price = Current.Close]_vars

\* C3: with force_signal false, a Flat simulator opens a Long at a bar, at that
\* bar's close and date, exactly when check_signal's entry condition holds for
\* the bar and its predecessor (on frames that carry every column backtest
\* reads, so that both see the same indicators).
C3_EntryIsCheckSignalBuy ==
    [][(AtBar /\ ~force_signal /\ position = "None" /\ LegacyColumns \subseteq columns)
          => ((position' = "LONG" /\ entry_price' = Current.Close
                  /\ entry_date' = Current.Date)
              <=> CheckSignal(SubSeq(df, 1, i + 1), cfg.rsi_buy, cfg.rsi_sell,
                              cfg.adx_thresh, cfg.use_sma, cfg.use_macd) = "BUY")]_vars

\* C4: with force_signal false, a Long position is closed at every bar where
\* rsi > rsi_sell and close < ema, whatever the SMA, ADX and MACD filters say.
C4_ExitNotFiltered ==
    [][(AtBar /\ ~force_signal /\ position = "LONG"
            /\ ExitSignal(Current, cfg.rsi_sell))
          => (position' = "None" /\ Len(trades') = Len(trades) + 1)]_vars

\* C5: backtest is re-invoked only by an unforced run that ended with an empty
\* ledger; an outermost run that ended with trades returns exactly its ledger
\* and invokes nothing; a caller that passes on the fallback's result had no
\* trades of its own.
C5_FallbackOnlyWhenEmpty ==
    [][/\ calls' # calls =>
            (pc = "loop" /\ i = Len(df) /\ trades = <<>> /\ ~force_signal)
       /\ (pc = "loop" /\ i = Len(df) /\ frames = <<>> /\ trades # <<>>) =>
            (pc' = "ret" /\ result'.trades_df = trades /\ calls' = calls
                /\ frames' = <<>>)
       /\ pc' = "tail" => trades' = <<>>]_vars

C5_Witness == Done /\ pc = "ret" /\ calls = 1 /\ Len(result.trades_df) >= 1

\* Steps left to the outermost return, at most.
Measure ==
    (2 - calls) * (MaxBars + 3) + Len(frames)
    + (CASE pc = "call" -> MaxBars + 2
         [] pc = "loop" -> Len(df) - i + 1
         [] OTHER -> 0)

\* C6: backtest is invoked at most twice and the call depth never exceeds two;
\* a forced run never invokes backtest; every step brings the outermost
\* return closer, so every call terminates.
C6_SingleFallback ==
    [][/\ calls' <= 2
       /\ Len(frames') <= 1
       /\ force_signal => calls' = calls
       /\ Measure' < Measure
       /\ Measure' >= 0]_vars

C6_Witness == Done /\ calls = 2 /\ result.set /\ result.trades_df = <<>>

\* C7 as claimed: a call whose filtered series is non-empty returns a
\* non-empty ledger.
C7_NonEmptyLedger ==
    (Done /\ error = "none" /\ Len(df) >= 1) => result.trades_df # <<>>

\* C7, amended: a call whose filtered series has at least two bars returns a
\* non-empty ledger (the forced rerun trades bars 1 and 2).
C7_NonEmptyLedgerFromTwoBars ==
    (Done /\ error = "none" /\ Len(df) >= 2) => result.trades_df # <<>>

C7_Witness == Done /\ pc = "tail" /\ Len(df) >= 2 /\ Len(result.trades_df) >= 1

\* C8: a run returns the trades its loop recorded and nothing else: a position
\* still Long after the last bar was opened after every returned trade was
\* closed, and every returned trade ends at a bar of the series where the
\* run's exit was taken.
C8_OpenPositionNotClosed ==
    pc = "ret" =>
        /\ result.trades_df = trades
        /\ position = "LONG" =>
              \A k \in 1..Len(result.trades_df) :
                  /\ result.trades_df[k].entry_date # entry_date
                  /\ result.trades_df[k].exit_date < entry_date
        /\ \A k \in 1..Len(result.trades_df) :
              \E b \in 1..Len(df) :
                  /\ df[b].Date = result.trades_df[k].exit_date
                  /\ df[b].Close = result.trades_df[k].exit_price
                  /\ ExitTaken(df[b], columns, cfg, force_signal)

C8_Witness ==
    pc = "ret" /\ position = "LONG" /\ i = Len(df) /\ Len(result.trades_df) >= 1

Ascending(l) == \A a, b \in 1..Len(l) : a < b => l[a].entry_date < l[b].entry_date
ExitAfterEntry(l) == \A k \in 1..Len(l) : l[k].exit_date > l[k].entry_date

\* C9: whatever the row order of the input, every trade of the ledger (being
\* built or returned) has exit_date > entry_date and the trades are in
\* ascending entry_date order.
C9_LedgerOrdered ==
    /\ ExitAfterEntry(trades) /\ Ascending(trades)
    /\ ExitAfterEntry(result.trades_df) /\ Ascending(result.trades_df)

C9_Witness ==
    /\ Done /\ Len(result.trades_df) >= 2
    /\ Len(input) >= 2 /\ input[1].Date > input[2].Date

\* The rows of the caller's frame inside [start_date, end_date].
RowsInRange ==
    LET Keep(r) ==
            /\ cfg.start_date # NoValue => r.Date >= cfg.start_date
            /\ cfg.end_date # NoValue => r.Date <= cfg.end_date
    IN  SelectSeq(input, Keep)

\* C10: a frame with the required columns and no row inside the date range
\* makes backtest return an empty ledger and empty debug counts: no error, no
\* fallback call.
C10_EmptyRange ==
    (Done /\ MissingColumn(Rename(columns)) = "none" /\ RowsInRange = <<>>) =>
        /\ pc = "ret"
        /\ error = "none"
        /\ result = [trades_df |-> <<>>, debug_counts |-> <<>>, set |-> TRUE]
        /\ calls = 1

C10_Witness == Done /\ pc = "ret" /\ input # <<>> /\ df = <<>> /\ result.set

\* The frame carries the column under one of the headers backtest accepts.
HasDate == "Date" \in columns \/ "date" \in columns
HasClose == "Close" \in columns \/ "close" \in columns
HasRsi == "rsi" \in columns \/ "RSI" \in columns
HasHighLow == {"high", "low"} \subseteq columns

\* C11 as claimed: a frame that lacks the timestamp, close or rsi column, or
\* the high/low columns while adx_thresh > 0, makes backtest raise the
\* missing-column error before any bar is evaluated and without a ledger.
C11_MissingColumnRaises ==
    (Done /\ (~HasDate \/ ~HasClose \/ ~HasRsi \/ (cfg.adx_thresh > 0 /\ ~HasHighLow)))
        => (pc = "raised" /\ ~result.set /\ i = 0 /\ trades = <<>>)

\* C11, amended: backtest raises the missing-column error exactly when the
\* Date, Close or rsi column is absent after the renames, naming an absent
\* column, before the counters and any bar and without a ledger or a fallback
\* call; absent high/low columns raise nothing.
C11_RequiredColumnRaises ==
    Done =>
        /\ pc = "raised" <=> (~HasDate \/ ~HasClose \/ ~HasRsi)
        /\ pc = "raised" =>
              /\ error \in {"Date", "Close", "rsi"} /\ error \notin columns
              /\ ~result.set /\ calls = 1
              /\ i = 0 /\ trades = <<>> /\ debug_counts = <<>>
        /\ pc # "raised" => error = "none"

C11_Witness == Done /\ pc = "raised" /\ error = "rsi" /\ input # <<>>

InRange(date) ==
    /\ cfg.start_date # NoValue => date >= cfg.start_date
    /\ cfg.end_date # NoValue => date <= cfg.end_date

\* C16: a call with a date range returns what a call without a range returns
\* on the rows of the caller's frame inside the range, ledger and debug counts
\* alike (fallback included), and no trade is entered or left outside the range.
C16_RangeFilteredFirst ==
    (Done /\ pc # "raised") =>
        /\ result = Backtest(RowsInRange, columns,
                             [cfg EXCEPT !.start_date = NoValue, !.end_date = NoValue],
                             FALSE)
        /\ \A k \in 1..Len(result.trades_df) :
              InRange(result.trades_df[k].entry_date)
                  /\ InRange(result.trades_df[k].exit_date)

C16_Witness ==
    /\ Done /\ pc = "tail" /\ cfg.start_date # NoValue /\ cfg.end_date # NoValue
    /\ Len(RowsInRange) < Len(input) /\ Len(result.trades_df) >= 1

\* The number of bars of the filtered frame that satisfy each filter taken in
\* isolation.
IsolatedCounts ==
    LET rows == 1..Len(df)
    IN  [name \in CounterNames |->
            CASE name = "RSI Buy Matches" ->
                    Cardinality({k \in rows : df[k].rsi < cfg.rsi_buy})
              [] name = "RSI Sell Matches" ->
                    Cardinality({k \in rows : df[k].rsi > cfg.rsi_sell})
              [] name = "ADX Matches" ->
                    Cardinality({k \in rows : df[k].adx >= cfg.adx_thresh})
              [] name = "SMA Matches" ->
                    Cardinality({k \in rows : df[k].Close > df[k].sma})
              [] name = "MACD Matches" ->
                    Cardinality({k \in rows : df[k].macd > df[k].signal})]

\* C17: on a non-empty filtered series every debug count returned is the number
\* of bars that satisfy that filter in isolation, whichever run returned.
C17_CountsInIsolation ==
    (Done /\ pc # "raised" /\ df # <<>> /\ LegacyColumns \subseteq columns)
        => result.debug_counts = IsolatedCounts

\* The frame has the columns apply_indicators writes.
FromApplyIndicators == columns = Rename(IndicatorColumns)

\* C18: on a frame produced by apply_indicators an unforced run opens no
\* position at a bar that fails an enabled filter: close <= sma with use_sma,
\* macd <= macd_signal with use_macd, adx below adx_thresh when it is positive.
C18_FiltersReadIndicatorColumns ==
    [][(AtBar /\ ~force_signal /\ FromApplyIndicators
            /\ position = "None" /\ position' = "LONG")
          => /\ cfg.use_sma => Current.Close > Current.sma
             /\ cfg.use_macd => Current.macd > Current.signal
             /\ cfg.adx_thresh > 0 => Current.adx >= cfg.adx_thresh]_vars

\* Bars 2k-1 and 2k of the frame make the k-th trade.
PairedTrades(l) ==
    \A k \in 1..Len(l) :
        /\ 2 * k <= Len(df)
        /\ l[k].entry_date = df[2 * k - 1].Date /\ l[k].entry_price = df[2 * k - 1].Close
        /\ l[k].exit_date = df[2 * k].Date /\ l[k].exit_price = df[2 * k].Close

\* C19: a bar changes the position at most once: the bar that closes a trade
\* leaves the simulator Flat and the bar that opens one records no trade, so
\* each trade is entered after the previous one was left; a forced run enters
\* on bars 1, 3, 5, ... and leaves on bars 2, 4, 6, ... (0, 2, 4 / 1, 3, 5 from
\* zero), returning floor(n / 2) trades for n bars.
C19_OneTransitionPerBar ==
    [][/\ AtBar =>
            /\ Len(trades') \in {Len(trades), Len(trades) + 1}
            /\ Len(trades') = Len(trades) + 1 => (position = "LONG" /\ position' = "None")
            /\ (position = "None" /\ position' = "LONG") => trades' = trades
       /\ \A k \in 2..Len(trades') : trades'[k].entry_date > trades'[k - 1].exit_date
       /\ (pc' = "loop" /\ force_signal') =>
            /\ Len(trades') = i' \div 2
            /\ position' = (IF i' % 2 = 1 THEN "LONG" ELSE "None")
            /\ PairedTrades(trades)'
       /\ (pc' = "ret" /\ force_signal') =>
            /\ Len(result'.trades_df) = Len(df') \div 2
            /\ PairedTrades(result.trades_df)']_vars

C19_Witness ==
    /\ Done /\ pc = "tail" /\ Len(df) = MaxBars /\ Len(result.trades_df) = MaxBars \div 2
    /\ Len(result.trades_df) >= 2

--------------------------------------------------------------------------
\* Properties of check_signal (under SignalSpec).

Evaluated == pc = "ret" /\ result.set
Cur == df[Len(df)]
Prev == df[Len(df) - 1]
Defined(x) == x # NaN

\* Every field check_signal needs for the configuration is defined on the two
\* rows it reads.
FieldsDefined ==
    /\ Defined(Cur.rsi) /\ Defined(Cur.ema) /\ Defined(Prev.ema) /\ Defined(Cur.adx)
    /\ cfg.use_sma => Defined(Cur.sma)
    /\ cfg.use_macd => (Defined(Cur.macd) /\ Defined(Cur.signal))

BuyExpected ==
    /\ Len(df) >= 2
    /\ FieldsDefined
    /\ Cur.rsi < cfg.rsi_buy
    /\ Cur.Close > Cur.ema
    /\ Prev.Close <= Prev.ema
    /\ cfg.use_sma => Cur.Close > Cur.sma
    /\ Cur.adx >= cfg.adx_thresh
    /\ cfg.use_macd => Cur.macd > Cur.signal

SellExpected ==
    /\ Len(df) >= 2
    /\ ~BuyExpected
    /\ Defined(Cur.rsi) /\ Defined(Cur.ema)
    /\ Cur.rsi > cfg.rsi_sell
    /\ Cur.Close < Cur.ema

\* C12: check_signal returns BUY exactly when, with the needed fields defined,
\* rsi < rsi_buy, close > ema, previous close <= previous ema and every enabled
\* filter passes (adx >= adx_thresh always); with the filters disabled and the
\* crossover reversed it returns HOLD.
C12_BuyExactly ==
    Evaluated =>
        /\ result.signal = "BUY" <=> BuyExpected
        /\ (/\ Len(df) >= 2 /\ FieldsDefined
            /\ ~cfg.use_sma /\ ~cfg.use_macd /\ cfg.adx_thresh = 0
            /\ Cur.rsi < cfg.rsi_buy
            /\ Cur.Close < Cur.ema /\ Prev.Close > Prev.ema)
           => result.signal = "HOLD"

C12_Witness ==
    /\ Evaluated /\ result.signal = "BUY"
    /\ cfg.use_sma /\ cfg.use_macd /\ cfg.adx_thresh = 20 /\ Cur.adx = 20

\* C13: check_signal returns SELL exactly when the BUY condition fails and
\* rsi > rsi_sell and close < ema, whatever the filter switches and the sma,
\* adx, macd and macd_signal values are; when the BUY condition holds the
\* answer is BUY.
C13_SellExactly ==
    Evaluated =>
        /\ result.signal = "SELL" <=> SellExpected
        /\ BuyExpected => result.signal = "BUY"

C13_Witness ==
    /\ Evaluated /\ result.signal = "SELL"
    /\ cfg.use_sma /\ cfg.use_macd /\ cfg.adx_thresh = 20
    /\ Cur.adx = 10 /\ Cur.macd = 0 /\ Cur.sma = 100

\* C14: check_signal returns HOLD whenever the frame has fewer than two rows or
\* a field needed for the configuration is undefined on the rows it reads.
C14_HoldWhenUndefined ==
    (Evaluated /\ (Len(df) < 2 \/ ~FieldsDefined)) => result.signal = "HOLD"

\* C15: the signal of a frame is the signal of its last two rows alone, so two
\* frames that end with the same two rows get the same signal.
C15_LastTwoRowsOnly ==
    Evaluated => result.signal = result.pair_signal

C15_Witness ==
    /\ Evaluated /\ Len(df) = 3 /\ result.signal = "BUY"
    /\ df[1].Close # df[2].Close

====
